---- MODULE Spec2Model ----
(***************************************************************************)
(* Excel Key Extractor (src/src/App.tsx).                                  *)
(*                                                                         *)
(* A string is a sequence of characters; an ASCII character is the         *)
(* one-character string itself and a non-ASCII character is named by its   *)
(* code point ("U+0645").  CharCode gives the UTF-16 code unit, which is   *)
(* what the default Array.prototype.sort compares.                         *)
(***************************************************************************)
EXTENDS Integers, Sequences, FiniteSets, TLC

VARIABLES
    file,           \* useState<File | null>, an index of Files or NoFile: App.tsx:158
    extractedKeys,  \* useState<string[]>               App.tsx:159
    isProcessing,   \* useState(false)                  App.tsx:160
    excelData,      \* useState<ExcelData>              App.tsx:161
    debugInfo,      \* useState<string>                 App.tsx:162
    pc,             \* position of the extractKeys call: "idle" | "awaiting"
    taskFile,       \* the file captured by the running extractKeys closure, or NoFile
    alert,          \* the last alert() shown, "none" before any
    saved,          \* the last saveAs() call, NoSave before any
    readOk,         \* whether the last settled file.arrayBuffer() promise resolved
    keysOf,         \* history: the file whose extraction set extractedKeys
    traversed,      \* history: whether the last finished call ran the sheet traversal
    runs,           \* history: per file, the calls that published (counted up to two)
                    \* and the key sequence the first of them published
    input,          \* argument of the pure function under check
    output          \* its result, NotRun before the call

vars == <<file, extractedKeys, isProcessing, excelData, debugInfo, pc, taskFile,
          alert, saved, readOk, keysOf, traversed, runs, input, output>>

appVars == <<file, extractedKeys, isProcessing, excelData, debugInfo, pc, taskFile,
             alert, saved, readOk, keysOf, traversed, runs>>

-----------------------------------------------------------------------------
(* Characters *)

LowerSeq == <<"a","b","c","d","e","f","g","h","i","j","k","l","m",
              "n","o","p","q","r","s","t","u","v","w","x","y","z">>
UpperSeq == <<"A","B","C","D","E","F","G","H","I","J","K","L","M",
              "N","O","P","Q","R","S","T","U","V","W","X","Y","Z">>
DigitSeq == <<"0","1","2","3","4","5","6","7","8","9">>

\* U+0020 .. U+007E in code order
AsciiSeq ==
    <<" ","!","\"","#","$","%","&","'","(",")","*","+",",","-",".","/">>
    \o DigitSeq \o <<":",";","<","=",">","?","@">>
    \o UpperSeq \o <<"[","\\","]","^","_","U+0060">>
    \o LowerSeq \o <<"{","|","}","~">>

Range(s) == {s[i] : i \in DOMAIN s}

Lower == Range(LowerSeq)
Upper == Range(UpperSeq)
Digit == Range(DigitSeq)
Letter == Lower \cup Upper
AlphaNum == Letter \cup Digit
Ascii == Range(AsciiSeq)

\* the Arabic-script characters of the model (all inside U+0600..U+06FF)
ArabicCode ==
    [c \in {"U+0627","U+0628","U+062D","U+0631","U+0645"} |->
        CASE c = "U+0627" -> 1575
          [] c = "U+0628" -> 1576
          [] c = "U+062D" -> 1581
          [] c = "U+0631" -> 1585
          [] c = "U+0645" -> 1605]
Arabic == DOMAIN ArabicCode

\* a Latin letter outside ASCII (U+00E9) and the tab
OtherCode == [c \in {"U+00E9", "\t"} |-> IF c = "\t" THEN 9 ELSE 233]

Char == Ascii \cup Arabic \cup DOMAIN OtherCode

\* String.prototype.charCodeAt
CharCode ==
    [c \in Char |->
        IF c \in Ascii THEN 31 + (CHOOSE i \in DOMAIN AsciiSeq : AsciiSeq[i] = c)
        ELSE IF c \in Arabic THEN ArabicCode[c]
        ELSE OtherCode[c]]

\* \s of a regular expression and the white space String.prototype.trim removes
WhiteSpace == {" ", "\t"}

\* \w of a regular expression
WordChar == AlphaNum \cup {"_"}

UpperOf ==
    [c \in Char |->
        IF c \in Lower THEN UpperSeq[CHOOSE i \in DOMAIN LowerSeq : LowerSeq[i] = c]
        ELSE IF c = "U+00E9" THEN "U+00C9" ELSE c]

LowerOf ==
    [c \in Char |->
        IF c \in Upper THEN LowerSeq[CHOOSE i \in DOMAIN UpperSeq : UpperSeq[i] = c]
        ELSE c]

-----------------------------------------------------------------------------
(* String primitives *)

toUpperCase(s) == [i \in DOMAIN s |-> UpperOf[s[i]]]
toLowerCase(s) == [i \in DOMAIN s |-> LowerOf[s[i]]]

\* s.substring(a - 1, b): the characters a..b (1-based, inclusive)
Sub(s, a, b) == IF a > b THEN << >> ELSE SubSeq(s, a, b)

\* String.prototype.trim
trim(s) ==
    LET keep == {i \in DOMAIN s : s[i] \notin WhiteSpace}
    IN  IF keep = {} THEN << >>
        ELSE Sub(s, CHOOSE i \in keep : \A j \in keep : i <= j,
                    CHOOSE i \in keep : \A j \in keep : j <= i)

\* String.prototype.includes
includes(s, t) ==
    \E i \in 0..(Len(s) - Len(t)) : Sub(s, i + 1, i + Len(t)) = t

startsWith(s, t) == Len(t) <= Len(s) /\ Sub(s, 1, Len(t)) = t

AllIn(s, class) == \A i \in DOMAIN s : s[i] \in class

\* the comparison of the default sort: by UTF-16 code units, a proper prefix first
StrLess(a, b) ==
    \E k \in 1..(Len(b)) :
        /\ k <= Len(a) + 1
        /\ \A j \in 1..(k - 1) : a[j] = b[j]
        /\ \/ k = Len(a) + 1
           \/ (k <= Len(a) /\ CharCode[a[k]] < CharCode[b[k]])

-----------------------------------------------------------------------------
(* The predicates of the filter: App.tsx:69-155 *)

\* the first index >= i of s that holds no digit (Len(s) + 1 when there is none)
DigitsEnd(s, i) ==
    LET stop == {j \in i..Len(s) : s[j] \notin Digit}
    IN  IF stop = {} THEN Len(s) + 1 ELSE CHOOSE j \in stop : \A k \in stop : j <= k

\* StrUnsignedDecimalLiteral of StringToNumber, without Infinity
IsUnsignedDecimal(u) ==
    LET a1      == DigitsEnd(u, 1)
        hasDot  == a1 <= Len(u) /\ u[a1] = "."
        mantEnd == IF hasDot THEN DigitsEnd(u, a1 + 1) ELSE a1
        nDigits == IF hasDot THEN mantEnd - 2 ELSE a1 - 1
        expAt   == IF mantEnd + 1 <= Len(u) /\ u[mantEnd + 1] \in {"+", "-"}
                   THEN mantEnd + 2 ELSE mantEnd + 1
    IN  /\ nDigits >= 1
        /\ \/ mantEnd = Len(u) + 1
           \/ /\ u[mantEnd] \in {"e", "E"}
              /\ expAt <= Len(u)
              /\ DigitsEnd(u, expAt) = Len(u) + 1

\* StrDecimalLiteral: an optional sign, then Infinity or an unsigned decimal
IsStrDecimalLiteral(t) ==
    LET u == IF Len(t) >= 1 /\ t[1] \in {"+", "-"} THEN Sub(t, 2, Len(t)) ELSE t
    IN  u = <<"I","n","f","i","n","i","t","y">> \/ IsUnsignedDecimal(u)

\* NonDecimalIntegerLiteral: 0x.., 0o.., 0b.. (no sign)
IsNonDecimalInteger(t) ==
    /\ Len(t) >= 3
    /\ t[1] = "0"
    /\ LET body == Sub(t, 3, Len(t))
       IN  \/ t[2] \in {"x", "X"}
              /\ AllIn(body, Digit \cup {"a","b","c","d","e","f","A","B","C","D","E","F"})
           \/ t[2] \in {"o", "O"} /\ AllIn(body, {"0","1","2","3","4","5","6","7"})
           \/ t[2] \in {"b", "B"} /\ AllIn(body, {"0","1"})

\* isNumeric: !isNaN(Number(str)) && !isNaN(parseFloat(str)).  Number trims the
\* string and takes the whole of it as a numeric literal ("" is 0); parseFloat
\* takes the longest decimal prefix, which a non-decimal literal has ("0") and
\* the empty string has not.
isNumeric(str) ==
    LET t == trim(str)
    IN  t # << >> /\ (IsStrDecimalLiteral(t) \/ IsNonDecimalInteger(t))

excelFunctions ==
    << <<"S","U","M">>,
       <<"C","O","U","N","T">>,
       <<"A","V","E","R","A","G","E">>,
       <<"M","A","X">>,
       <<"M","I","N">>,
       <<"I","F">>,
       <<"A","N","D">>,
       <<"O","R">>,
       <<"N","O","T">>,
       <<"V","L","O","O","K","U","P">>,
       <<"H","L","O","O","K","U","P">>,
       <<"I","N","D","E","X">>,
       <<"M","A","T","C","H">>,
       <<"C","O","N","C","A","T","E","N","A","T","E">>,
       <<"L","E","F","T">>,
       <<"R","I","G","H","T">>,
       <<"M","I","D">>,
       <<"L","E","N">>,
       <<"T","R","I","M">>,
       <<"U","P","P","E","R">>,
       <<"L","O","W","E","R">>,
       <<"F","I","N","D">>,
       <<"S","U","B","S","T","I","T","U","T","E">>,
       <<"T","E","X","T">>,
       <<"V","A","L","U","E">>,
       <<"D","A","T","E">>,
       <<"T","O","D","A","Y">>,
       <<"N","O","W">>,
       <<"Y","E","A","R">>,
       <<"M","O","N","T","H">>,
       <<"D","A","Y">>,
       <<"W","E","E","K","D","A","Y">> >>

ExcelFunctionSet == Range(excelFunctions)

\* a faulty variant: the list is matched case-sensitively
isExcelFunctionCaseSensitive(str) == str \in ExcelFunctionSet

\* excelFunctions.includes(str.toUpperCase())
isExcelFunction(str) == toUpperCase(str) \in ExcelFunctionSet

\* a faulty variant: the i flag is left out
isExcelCellReferenceCaseSensitive(str) ==
    \E k \in 1..(Len(str) - 1) :
        /\ \A i \in 1..k : str[i] \in Upper
        /\ \A i \in (k + 1)..Len(str) : str[i] \in Digit

\* /^[A-Z]+[0-9]+$/i
isExcelCellReference(str) ==
    \E k \in 1..(Len(str) - 1) :
        /\ \A i \in 1..k : str[i] \in Letter
        /\ \A i \in (k + 1)..Len(str) : str[i] \in Digit

\* a faulty variant: the hyphen is missing from the class
KeyCharNoHyphen == AlphaNum \cup {"_", "."}

\* the class [a-zA-Z0-9_\-\.] of App.tsx:123
KeyChar == AlphaNum \cup {"_", "-", "."}

\* /^[A-Z_][A-Z0-9_]*$/
IsConstantCase(s) ==
    /\ Len(s) >= 1
    /\ s[1] \in Upper \cup {"_"}
    /\ \A i \in 2..Len(s) : s[i] \in Upper \cup Digit \cup {"_"}

\* /^[a-z]+[A-Z]/ : a run of lower-case letters from the start, then an upper-case one
IsCamelPrefix(s) ==
    \E k \in 1..(Len(s) - 1) :
        /\ \A i \in 1..k : s[i] \in Lower
        /\ s[k + 1] \in Upper

\* /^[A-Za-z]+\d+$/
IsWordDigits(s) ==
    \E k \in 1..(Len(s) - 1) :
        /\ \A i \in 1..k : s[i] \in Letter
        /\ \A i \in (k + 1)..Len(s) : s[i] \in Digit

semanticWords ==
    { <<"k","e","y">>, <<"i","d">>, <<"c","o","d","e">>,
      <<"n","a","m","e">>, <<"t","y","p","e">>, <<"v","a","l","u","e">> }

\* the return expression of isEnglishKey, App.tsx:141-154
HasKeyShape(cleanStr) ==
    \/ includes(cleanStr, <<"_">>)
    \/ includes(cleanStr, <<"-">>)
    \/ includes(cleanStr, <<".">>)
    \/ IsConstantCase(cleanStr)
    \/ IsCamelPrefix(cleanStr)
    \/ IsWordDigits(cleanStr)
    \/ \E w \in semanticWords : includes(toLowerCase(cleanStr), w)

isEnglishKey(str) ==
    IF str = << >> THEN FALSE
    ELSE LET cleanStr == trim(str)
         IN  /\ cleanStr # << >> /\ AllIn(cleanStr, KeyChar)
             /\ ~(Len(cleanStr) < 2)
             /\ \E i \in DOMAIN cleanStr : cleanStr[i] \in Letter
             /\ ~AllIn(cleanStr, Digit)
             /\ ~isExcelFunction(cleanStr)
             /\ ~isExcelCellReference(cleanStr)
             /\ HasKeyShape(cleanStr)

-----------------------------------------------------------------------------
(* The formula tokenizer: App.tsx:12-67 *)

\* the first index >= i of s whose character is in stop (Len(s) + 1 when none is)
FirstIn(s, i, stop) ==
    LET hit == {j \in i..Len(s) : s[j] \in stop}
    IN  IF hit = {} THEN Len(s) + 1 ELSE CHOOSE j \in hit : \A k \in hit : j <= k

\* the first index >= i of s whose character is not in class
FirstNotIn(s, i, class) ==
    LET hit == {j \in i..Len(s) : s[j] \notin class}
    IN  IF hit = {} THEN Len(s) + 1 ELSE CHOOSE j \in hit : \A k \in hit : j <= k

WordAt(s, i) == i \in 1..Len(s) /\ s[i] \in WordChar

\* \b between the characters i - 1 and i
Boundary(s, i) == WordAt(s, i - 1) # WordAt(s, i)

NoMatch == [ok |-> FALSE, from |-> 0, to |-> 0, next |-> 0]
Match(a, b, n) == [ok |-> TRUE, from |-> a, to |-> b, next |-> n]

\* /"([^"]+)"/ and /'([^']+)'/ tried at index i: the capture is from..to and
\* next is the regular expression's lastIndex after the match
QuotedAt(q, s, i) ==
    IF s[i] # q THEN NoMatch
    ELSE LET close == FirstIn(s, i + 1, {q})
         IN  IF close <= Len(s) /\ close >= i + 2
             THEN Match(i + 1, close - 1, close + 1) ELSE NoMatch

\* /\b([A-Za-z_][A-Za-z0-9_]*)\s*\(/
FunctionCallAt(s, i) ==
    IF ~(Boundary(s, i) /\ s[i] \in Letter \cup {"_"}) THEN NoMatch
    ELSE LET e == FirstNotIn(s, i + 1, WordChar)
             w == FirstNotIn(s, e, WhiteSpace)
         IN  IF w <= Len(s) /\ s[w] = "(" THEN Match(i, e - 1, w + 1) ELSE NoMatch

\* /\b([A-Za-z][A-Za-z0-9_\-\.]*[A-Za-z0-9])\b/ : the greedy run gives characters
\* back until it ends on a letter or digit that a non-word character follows
IdentifierAt(s, i) ==
    IF ~(Boundary(s, i) /\ s[i] \in Letter) THEN NoMatch
    ELSE LET r    == FirstNotIn(s, i + 1, KeyChar) - 1
             ends == {e \in (i + 1)..r : s[e] \in AlphaNum /\ ~WordAt(s, e + 1)}
         IN  IF ends = {} THEN NoMatch
             ELSE LET e == CHOOSE x \in ends : \A y \in ends : y <= x
                  IN  Match(i, e, e + 1)

\* /'([^'!]+)'!/
SheetRefAt(s, i) ==
    IF s[i] # "'" THEN NoMatch
    ELSE LET stop == FirstIn(s, i + 1, {"'", "!"})
         IN  IF /\ stop >= i + 2
                /\ stop + 1 <= Len(s)
                /\ s[stop] = "'"
                /\ s[stop + 1] = "!"
             THEN Match(i + 1, stop - 1, stop + 2) ELSE NoMatch

\* /\b([A-Z_][A-Z0-9_]*)\b/
ConstantNameAt(s, i) ==
    IF ~(Boundary(s, i) /\ s[i] \in Upper \cup {"_"}) THEN NoMatch
    ELSE LET e == FirstNotIn(s, i + 1, Upper \cup Digit \cup {"_"})
         IN  IF ~WordAt(s, e) THEN Match(i, e - 1, e) ELSE NoMatch

\* /\b([a-z][a-zA-Z0-9]*[A-Z][a-zA-Z0-9]*)\b/
CamelWordAt(s, i) ==
    IF ~(Boundary(s, i) /\ s[i] \in Lower) THEN NoMatch
    ELSE LET e == FirstNotIn(s, i + 1, AlphaNum)
         IN  IF (\E k \in (i + 1)..(e - 1) : s[k] \in Upper) /\ ~WordAt(s, e)
             THEN Match(i, e - 1, e) ELSE NoMatch

\* /[\u0600-\u06FF\u0750-\u077F\u08A0-\u08FF\uFB50-\uFDFF\uFE70-\uFEFF]+/ ;
\* the capture is the whole match
PersianRunAt(s, i) ==
    IF s[i] \notin Arabic THEN NoMatch
    ELSE LET e == FirstNotIn(s, i + 1, Arabic) IN Match(i, e - 1, e)

\* the number of entries of the patterns array, App.tsx:19-38
NumPatterns == 7

\* patterns[p - 1] tried at index i
PatternAt(p, s, i) ==
    CASE p = 1 -> QuotedAt("\"", s, i)
      [] p = 2 -> QuotedAt("'", s, i)
      [] p = 3 -> FunctionCallAt(s, i)
      [] p = 4 -> IdentifierAt(s, i)
      [] p = 5 -> SheetRefAt(s, i)
      [] p = 6 -> ConstantNameAt(s, i)
      [] p = 7 -> CamelWordAt(s, i)
      [] OTHER -> PersianRunAt(s, i)

\* the loop  while ((match = pattern.exec(s)) !== null)  of a /g pattern: the
\* captures of the successive leftmost matches, each search starting at lastIndex
RECURSIVE ExecAll(_, _, _)
ExecAll(p, s, lastIndex) ==
    LET hits == {i \in lastIndex..Len(s) : PatternAt(p, s, i).ok}
    IN  IF hits = {} THEN << >>
        ELSE LET i == CHOOSE x \in hits : \A y \in hits : x <= y
                 m == PatternAt(p, s, i)
             IN  <<Sub(s, m.from, m.to)>> \o ExecAll(p, s, m.next)

\* a faulty variant: the function-name test is left out
KeepKeyWithFunctions(key) ==
    /\ Len(key) > 1
    /\ ~isNumeric(key)
    /\ ~isExcelCellReference(key)

\* the condition of App.tsx:44-50
KeepKey(key) ==
    /\ Len(key) > 1
    /\ ~isNumeric(key)
    /\ ~isExcelFunction(key)
    /\ ~isExcelCellReference(key)

KeepRun(run) == Len(run) > 2

\* Array.from(new Set(keys)): the first occurrence of each string, in order
Dedupe(keys) ==
    LET first == {i \in DOMAIN keys : \A j \in 1..(i - 1) : keys[j] # keys[i]}
        RECURSIVE Pick(_)
        Pick(i) == IF i > Len(keys) THEN << >>
                   ELSE (IF i \in first THEN <<keys[i]>> ELSE << >>) \o Pick(i + 1)
    IN  Pick(1)

RECURSIVE PatternKeys(_, _)
\* keys.push of the patterns p..7, in the order of patterns.forEach
PatternKeys(p, s) ==
    IF p > NumPatterns THEN << >>
    ELSE SelectSeq(ExecAll(p, s, 1), KeepKey) \o PatternKeys(p + 1, s)

extractKeysFromFormula(formula) ==
    LET cleanFormula == IF startsWith(formula, <<"=">>)
                        THEN Sub(formula, 2, Len(formula)) ELSE formula
    IN  Dedupe(PatternKeys(1, cleanFormula)
               \o SelectSeq(ExecAll(NumPatterns + 1, cleanFormula, 1), KeepRun))

-----------------------------------------------------------------------------
(* The workbook handed over by XLSX.read, as extractKeys reads it *)

\* cell.v: a string, a number, a boolean, or undefined
Undefined == [t |-> "z", s |-> << >>, n |-> 0, b |-> FALSE]
Str(s)    == [t |-> "s", s |-> s, n |-> 0, b |-> FALSE]
Num(n)    == [t |-> "n", s |-> << >>, n |-> n, b |-> FALSE]
Bool(b)   == [t |-> "b", s |-> << >>, n |-> 0, b |-> b]

\* worksheet[cellAddress]: present says whether the address holds a cell; an
\* absent formula (cell.f) or formatted text (cell.w) is the empty string, which
\* the tests  if (cell.f)  and  cell.w && ...  treat like undefined
NoCell == [present |-> FALSE, v |-> Undefined, f |-> << >>, w |-> << >>]
Cell(v, f, w) == [present |-> TRUE, v |-> v, f |-> f, w |-> w]

RECURSIVE NatToString(_)
\* String(n) of a non-negative integer
NatToString(n) ==
    IF n < 10 THEN <<DigitSeq[n + 1]>>
    ELSE NatToString(n \div 10) \o <<DigitSeq[(n % 10) + 1]>>

\* String(cell.v)
String(v) ==
    CASE v.t = "s" -> v.s
      [] v.t = "n" -> NatToString(v.n)
      [] v.t = "b" -> IF v.b THEN <<"t","r","u","e">> ELSE <<"f","a","l","s","e">>
      [] OTHER     -> <<"u","n","d","e","f","i","n","e","d">>

\* a faulty variant: a key already in the set is added again
SetAddAgain(allKeys, key) == Append(allKeys, key)

\* allKeys.add(key): a Set keeps insertion order and holds each string once
SetAdd(allKeys, key) ==
    IF \E i \in DOMAIN allKeys : allKeys[i] = key THEN allKeys
    ELSE Append(allKeys, key)

RECURSIVE AddEnglishKeys(_, _)
\* extractedKeys.forEach((key) => { if (isEnglishKey(key)) allKeys.add(key) })
AddEnglishKeys(allKeys, keys) ==
    IF keys = << >> THEN allKeys
    ELSE AddEnglishKeys(IF isEnglishKey(Head(keys)) THEN SetAdd(allKeys, Head(keys))
                        ELSE allKeys,
                        Tail(keys))

\* App.tsx:229-249
ScanFormula(allKeys, cell) ==
    IF cell.f # << >> THEN AddEnglishKeys(allKeys, extractKeysFromFormula(cell.f))
    ELSE allKeys

\* App.tsx:251-265
ScanValue(allKeys, cell) ==
    IF cell.v.t # "z"
    THEN LET cellValue == trim(String(cell.v))
         IN  IF Len(cellValue) > 0 /\ isEnglishKey(cellValue)
             THEN SetAdd(allKeys, cellValue) ELSE allKeys
    ELSE allKeys

\* App.tsx:267-271
ScanFormatted(allKeys, cell) ==
    IF cell.w # << >> /\ isEnglishKey(cell.w) THEN SetAdd(allKeys, cell.w)
    ELSE allKeys

\* the body of  if (cell) { ... } , App.tsx:220-272
ScanCell(allKeys, cell) ==
    IF cell.present
    THEN ScanFormatted(ScanValue(ScanFormula(allKeys, cell), cell), cell)
    ELSE allKeys

RECURSIVE ScanCells(_, _)
ScanCells(allKeys, cells) ==
    IF cells = << >> THEN allKeys
    ELSE ScanCells(ScanCell(allKeys, Head(cells)), Tail(cells))

RECURSIVE Flatten(_)
Flatten(rows) == IF rows = << >> THEN << >> ELSE Head(rows) \o Flatten(Tail(rows))

\* the cells of decode_range(worksheet["!ref"] || "A1") in row-major order; a
\* sheet without "!ref" has no cell at A1
RangeCells(sheet) == IF sheet.ref THEN Flatten(sheet.rows) ELSE <<NoCell>>

RECURSIVE AddNames(_, _)
\* App.tsx:286-295: every non-empty name.Name is added as it is
AddNames(allKeys, names) ==
    IF names = << >> THEN allKeys
    ELSE AddNames(IF Head(names) # << >> THEN SetAdd(allKeys, Head(names)) ELSE allKeys,
                  Tail(names))

\* XLSX.utils.sheet_to_json(worksheet, { header: 1 }): one array per row of the
\* range, holding cell.v at the cell's column and a hole where there is no value;
\* the empty array for a sheet without "!ref"
sheet_to_json(sheet) ==
    IF sheet.ref
    THEN [r \in DOMAIN sheet.rows |->
            [c \in DOMAIN sheet.rows[r] |->
                IF sheet.rows[r][c].present THEN sheet.rows[r][c].v ELSE Undefined]]
    ELSE << >>

RECURSIVE AddHeadersUnfiltered(_, _)
\* a faulty variant: every non-blank string header is added, accepted or not
AddHeadersUnfiltered(allKeys, headers) ==
    IF headers = << >> THEN allKeys
    ELSE LET header == Head(headers)
             headerValue == trim(header.s)
         IN  AddHeadersUnfiltered(IF /\ header.t = "s"
                                     /\ header.s # << >>
                                     /\ headerValue # << >>
                                  THEN SetAdd(allKeys, headerValue) ELSE allKeys,
                                  Tail(headers))

RECURSIVE AddHeaders(_, _)
\* headers.forEach, App.tsx:302-312
AddHeaders(allKeys, headers) ==
    IF headers = << >> THEN allKeys
    ELSE LET header == Head(headers)
             headerValue == trim(header.s)
         IN  AddHeaders(IF /\ header.t = "s"
                           /\ header.s # << >>
                           /\ headerValue # << >>
                           /\ isEnglishKey(headerValue)
                        THEN SetAdd(allKeys, headerValue) ELSE allKeys,
                        Tail(headers))

\* the header pass of one sheet, App.tsx:297-313
ScanHeaders(allKeys, sheet) ==
    LET jsonData == sheet_to_json(sheet)
    IN  IF Len(jsonData) > 0 THEN AddHeaders(allKeys, jsonData[1]) ELSE allKeys

\* one turn of workbook.SheetNames.forEach, App.tsx:193-314
ScanSheet(allKeys, sheet, names) ==
    ScanHeaders(AddNames(ScanCells(allKeys, RangeCells(sheet)), names), sheet)

RECURSIVE ScanSheets(_, _, _)
ScanSheets(allKeys, sheets, names) ==
    IF sheets = << >> THEN allKeys
    ELSE ScanSheets(ScanSheet(allKeys, Head(sheets), names), Tail(sheets), names)

RECURSIVE Insert(_, _)
\* x put before the first element of the sorted sequence that is greater
Insert(sorted, x) ==
    IF sorted = << >> THEN <<x>>
    ELSE IF StrLess(x, Head(sorted)) THEN <<x>> \o sorted
    ELSE <<Head(sorted)>> \o Insert(Tail(sorted), x)

\* a faulty variant: the set is handed on in insertion order
sortLeftOut(keys) == keys

RECURSIVE sort(_)
\* Array.prototype.sort() without a comparator: ascending by UTF-16 code units
sort(keys) == IF keys = << >> THEN << >> ELSE Insert(sort(Tail(keys)), Head(keys))

\* a faulty variant: the names of the sheets are put into the set as well
KeysArrayWithSheetNames(workbook) ==
    sort(ScanSheets([i \in DOMAIN workbook.sheets |-> <<"S","h","e","e","t">> \o NatToString(i)],
                    workbook.sheets, workbook.names))

\* a faulty variant: allKeys lives outside the call and starts from the keys the
\* component already holds
KeysArrayFromEarlierRuns(workbook) ==
    sort(ScanSheets(extractedKeys, workbook.sheets, workbook.names))

\* keysArray of App.tsx:189-316 for a parsed workbook
KeysArray(workbook) == sort(ScanSheets(<< >>, workbook.sheets, workbook.names))

-----------------------------------------------------------------------------
(* Bounds of the checked inputs *)

\* the longest generated candidate string
MaxStrLen == 3
\* the most cells in a generated one-row sheet
MaxCells == 2
\* the most sheets in a workbook put together from SheetPool
MaxSheets == 2
\* the most entries of workbook.Workbook.Names
MaxNames == 1

SeqsUpTo(S, n) == UNION {[1..k -> S] : k \in 0..n}

-----------------------------------------------------------------------------
(* Candidate strings for the filter *)

\* lower and upper case letters, a digit, the three key symbols' representatives,
\* white space and an Arabic letter: enough to spell OR, id, R1, iD, O_R, " id"
FilterAlphabet == {"i", "d", "O", "R", "1", "_", ".", " ", "U+0645"}

Capitalized(s) == [i \in DOMAIN s |-> IF i = 1 THEN UpperOf[s[i]] ELSE LowerOf[s[i]]]

ArabicWord == <<"U+0645","U+0631","U+062D","U+0628","U+0627">>

SampleStrings ==
    { <<"u","s","e","r","_","i","d">>, <<"i","t","e","m","N","a","m","e">>, <<"M","A","X","_","C","O","U","N","T">>, <<"k","e","y","-","1">>, <<"c","o","n","f","i","g",".","v","a","l","u","e">>,
      ArabicWord, <<"1","2","3","4","5">>, <<"a">>, <<"I","F">>, <<"A","1">>, <<"A","A","1","0","0">>, <<"a","a","1","0">>, <<"k","e","y","1">>,
      <<"i","t","e","m","2">>, <<"V","a","l","u","e">>, <<"F","A","L","S","E">>, <<"S","h","e","e","t","2">>, <<"e","m","p","l","o","y","e","e","_","c","o","d","e">>, <<"N","a","m","e">>,
      <<"A","l","i">>, <<"u","1">>, <<"B">>, <<"4","2">>, <<" ","u","s","e","r","_","i","d"," ">>, <<" ","1","2","3","4","5"," ">>, <<" ","A","1"," ">>,
      <<"1","e","-","7">>, <<"c","a","f","U+00E9","_","i","d">>, <<"u","s","e","r"," ","i","d">>, <<"T","R","U","E">>, <<"T","o","t","a","l">> }

FilterInputs ==
    SeqsUpTo(FilterAlphabet, MaxStrLen)
    \cup SampleStrings
    \cup ExcelFunctionSet
    \cup {toLowerCase(f) : f \in ExcelFunctionSet}
    \cup {Capitalized(f) : f \in ExcelFunctionSet}
    \cup {<<" ">> \o f \o <<" ">> : f \in ExcelFunctionSet}

-----------------------------------------------------------------------------
(* Formulas for the tokenizer *)

VlookupFormula == <<"=","V","L","O","O","K","U","P","(","\"","e","m","p","l","o","y","e","e","_","c","o","d","e","\"",","," ","S","h","e","e","t","2","!","A",":","A",","," ","1",","," ","F","A","L","S","E",")">>

\* characters the generated formulas are made of
FormulaAlphabet == {"a", "B", "1", "_", "(", "'", "!", "U+0645"}

SampleFormulas ==
    { VlookupFormula,
      <<"V","L","O","O","K","U","P","(","\"","e","m","p","l","o","y","e","e","_","c","o","d","e","\"",","," ","S","h","e","e","t","2","!","A",":","A",","," ","1",","," ","F","A","L","S","E",")">>,
      <<"=","S","U","M","(","A","1",":","A","1","0",")">>,
      <<"=","I","F","(","u","s","e","r","_","i","d",">","0",","," ","'","P","r","i","c","e"," ","L","i","s","t","'","!","B","2",","," ","M","A","X","_","C","O","U","N","T",")">>,
      <<"=","i","t","e","m","N","a","m","e"," ","&"," ","\"","U+0645","U+0631","U+062D","U+0628","U+0627","\""," ","&"," ","c","o","n","f","i","g",".","v","a","l","u","e">>,
      <<"=","s","u","m"," ","(","t","a","x","_","r","a","t","e",")"," ","+"," ","k","e","y","-","1"," ","+"," ","1","e","5"," ","+"," ","\"","1","2","\"">>,
      <<"=","U+0645","U+0631","U+062D","U+0628","U+0627"," ","+"," ","U+0645","U+0631">> }

Formulas == SampleFormulas \cup SeqsUpTo(FormulaAlphabet, MaxStrLen)

-----------------------------------------------------------------------------
(* Workbooks for the traversal *)

Text(s) == Cell(Str(s), << >>, << >>)

\* cells of the generated sheets: no cell, a cell without content, plain strings,
\* a string whose formatted text keeps its spaces, a number and a boolean with
\* their formatted text, Arabic text, and a formula cell with its cached value
CellPool ==
    { NoCell,
      Cell(Undefined, << >>, << >>),
      Text(<<"u","s","e","r","_","i","d">>),
      Cell(Str(<<" ","N","a","m","e"," ">>), << >>, <<" ","N","a","m","e"," ">>),
      Cell(Num(42), << >>, <<"4","2">>),
      Cell(Bool(TRUE), << >>, <<"T","R","U","E">>),
      Cell(Str(ArabicWord), << >>, ArabicWord),
      Cell(Str(<<"e","m","p","l","o","y","e","e","_","c","o","d","e">>), VlookupFormula, << >>) }

Sheet(ref, rows) == [ref |-> ref, rows |-> rows]

\* a sheet without "!ref"
NoRefSheet == Sheet(FALSE, << >>)

\* a used range that holds no cell, or only cells without content
BlankSheets ==
    { Sheet(TRUE, <<<<NoCell>>>>),
      Sheet(TRUE, <<<<NoCell, Cell(Undefined, << >>, << >>)>>, <<NoCell, NoCell>>>>) }

EmptySheets == {NoRefSheet} \cup BlankSheets

\* header row user_id, Name, B and data row u1, Ali, 42; withText says whether
\* the reader filled in the formatted text of each cell
Scenario1Sheet(withText) ==
    LET T(s) == Cell(Str(s), << >>, IF withText THEN s ELSE << >>)
    IN  Sheet(TRUE,
              << <<T(<<"u","s","e","r","_","i","d">>), T(<<"N","a","m","e">>), T(<<"B">>)>>,
                 <<T(<<"u","1">>), T(<<"A","l","i">>),
                   Cell(Num(42), << >>, IF withText THEN <<"4","2">> ELSE << >>)>> >>)

Scenario1Sheets == {Scenario1Sheet(b) : b \in BOOLEAN}

SheetPool ==
    EmptySheets \cup Scenario1Sheets
    \cup { Sheet(TRUE, << <<Text(<<"M","A","X","_","C","O","U","N","T">>), Text(<<"u","s","e","r","_","i","d">>)>>,
                           <<Cell(Str(ArabicWord), << >>, << >>),
                             Cell(Str(<<"A","l","i">>), <<"i","t","e","m","N","a","m","e"," ","&"," ","\"","U+0645","U+0631","U+062D","U+0628","U+0627","\""," ","&"," ","u","s","e","r","_","i","d">>, << >>)>> >>) }

GeneratedSheets == {Sheet(TRUE, <<row>>) : row \in SeqsUpTo(CellPool, MaxCells) \ {<< >>}}

\* names of defined ranges: one the filter accepts, one it rejects, one in Arabic
NamePool == { <<"T","A","X","_","R","A","T","E">>, <<"T","o","t","a","l">>, ArabicWord }

NameLists == SeqsUpTo(NamePool, MaxNames)

Workbook(sheets, names) == [sheets |-> sheets, names |-> names]

Workbooks ==
    {Workbook(<<s>>, n) : s \in GeneratedSheets, n \in NameLists}
    \cup {Workbook(ss, n) : ss \in SeqsUpTo(SheetPool, MaxSheets) \ {<< >>}, n \in NameLists}

-----------------------------------------------------------------------------
(* The App component: App.tsx:157-376 *)

\* the File objects the user can select: name, size, whether XLSX.read accepts the
\* bytes, and the workbook it then returns
MalformedBytes == Workbook(<<NoRefSheet>>, << >>)

Files ==
    << [name |-> <<"r","e","p","o","r","t",".","x","l","s","x">>, size |-> 2048, parses |-> TRUE,
        workbook |-> Workbook(<<Scenario1Sheet(TRUE)>>, << >>)],
       [name |-> <<"d","a","t","a",".","v","2",".","x","l","s">>, size |-> 4096, parses |-> TRUE,
        workbook |-> Workbook(<<Sheet(TRUE, <<<<Cell(Str(<<"e","m","p","l","o","y","e","e","_","c","o","d","e">>),
                                                     VlookupFormula, << >>)>>>>),
                                NoRefSheet>>,
                              <<<<"T","A","X","_","R","A","T","E">>>>)],
       [name |-> <<"e","m","p","t","y",".","x","l","s","x">>, size |-> 512, parses |-> TRUE,
        workbook |-> Workbook(<<NoRefSheet>>, << >>)],
       [name |-> <<"b","r","o","k","e","n",".","x","l","s","x">>, size |-> 17, parses |-> FALSE,
        workbook |-> MalformedBytes] >>

\* file === null
NoFile == 0
FileIds == DOMAIN Files

\* workbook.SheetNames: the reader names the sheets in document order
SheetNames(workbook) ==
    [i \in DOMAIN workbook.sheets |-> <<"S","h","e","e","t">> \o NatToString(i)]

\* data of App.tsx:190-202: the rows of every sheet under the sheet's name
SheetData(workbook) ==
    [i \in DOMAIN workbook.sheets |->
        [sheetName |-> SheetNames(workbook)[i],
         jsonData  |-> sheet_to_json(workbook.sheets[i])]]

NoData == << >>

\* debugInfo: the values the template strings interpolate (the clock time left out)
NoDebug == [kind |-> "", name |-> << >>, size |-> 0, sheets |-> << >>,
            total |-> 0, preview |-> << >>, more |-> FALSE]

\* debugOutput of App.tsx:321-332
DebugOutput(f, keysArray) ==
    [kind |-> "extract", name |-> Files[f].name, size |-> Files[f].size,
     sheets |-> SheetNames(Files[f].workbook), total |-> Len(keysArray),
     preview |-> Sub(keysArray, 1, IF Len(keysArray) < 10 THEN Len(keysArray) ELSE 10),
     more |-> Len(keysArray) > 10]

\* the text of the Test button, App.tsx:430-434
TestOutput(f) ==
    [kind |-> "test", name |-> Files[f].name, size |-> Files[f].size,
     sheets |-> << >>, total |-> 0, preview |-> << >>, more |-> FALSE]

\* name.replace(/\.[^/.]+$/, "") || "excel-keys"
BaseName(name) ==
    LET dots == {d \in 1..(Len(name) - 1) :
                    /\ name[d] = "."
                    /\ \A j \in (d + 1)..Len(name) : name[j] \notin {"/", "."}}
        cut  == IF dots = {} THEN name
                ELSE Sub(name, 1, (CHOOSE d \in dots : TRUE) - 1)
    IN  IF cut = << >> THEN <<"e","x","c","e","l","-","k","e","y","s">> ELSE cut

ExportName(name) == BaseName(name) \o <<"-","k","e","y","s",".","j","s","o","n">>

NoSave == [written |-> FALSE, fileName |-> << >>, keys |-> << >>, source |-> NoFile]

NotRun == [done |-> FALSE, value |-> << >>]
Result(v) == [done |-> TRUE, value |-> v]

enginePins == input = << >> /\ output = NotRun

AppInit ==
    /\ file = NoFile
    /\ extractedKeys = << >>
    /\ isProcessing = FALSE
    /\ excelData = NoData
    /\ debugInfo = NoDebug
    /\ pc = "idle"
    /\ taskFile = NoFile
    /\ readOk = TRUE
    /\ alert = "none"
    /\ saved = NoSave
    /\ keysOf = NoFile
    /\ traversed = FALSE
    /\ runs = [f \in FileIds |-> [count |-> 0, first |-> << >>]]

Init == AppInit /\ enginePins

\* App.tsx:164-169
handleFileSelect(selectedFile) ==
    /\ file' = selectedFile
    /\ extractedKeys' = << >>
    /\ excelData' = NoData
    /\ debugInfo' = NoDebug
    /\ keysOf' = NoFile
    /\ UNCHANGED <<isProcessing, pc, taskFile, readOk, alert, saved, traversed,
                   runs, input, output>>

\* the click on Extract Keys (rendered for a selected file, disabled while
\* isProcessing) up to the await of file.arrayBuffer(): App.tsx:171-182, 396-411
extractKeysStart ==
    /\ file # NoFile
    /\ ~isProcessing
    /\ pc = "idle"
    /\ isProcessing' = TRUE
    /\ pc' = "awaiting"
    /\ taskFile' = file
    /\ UNCHANGED <<file, extractedKeys, excelData, debugInfo, readOk, alert, saved,
                   keysOf, traversed, runs, input, output>>

\* App.tsx:320-349: the three setState calls and the zero-keys alert
Publish(f, keysArray) ==
    /\ debugInfo' = DebugOutput(f, keysArray)
    /\ extractedKeys' = keysArray
    /\ excelData' = SheetData(Files[f].workbook)
    /\ keysOf' = f
    /\ alert' = IF Len(keysArray) = 0 THEN "no-keys" ELSE alert

\* a faulty variant: the handler also clears the list of keys
CatchClearsKeys ==
    /\ alert' = "error"
    /\ extractedKeys' = << >>
    /\ keysOf' = NoFile
    /\ UNCHANGED <<excelData, debugInfo>>

\* the catch block, App.tsx:350-356
Catch ==
    /\ alert' = "error"
    /\ UNCHANGED <<extractedKeys, excelData, debugInfo, keysOf>>

\* the rest of the call once the promise of file.arrayBuffer() settles (ok: it
\* resolved): XLSX.read, the traversal, the publication or the catch block, and
\* the finally block; App.tsx:182-359
extractKeysResume(ok) ==
    /\ pc = "awaiting"
    /\ readOk' = ok
    /\ IF ok /\ Files[taskFile].parses
       THEN /\ Publish(taskFile, KeysArray(Files[taskFile].workbook))
            /\ traversed' = TRUE
            /\ runs' = [runs EXCEPT ![taskFile] =
                           IF @.count = 0 THEN [count |-> 1, first |-> extractedKeys']
                           ELSE [count |-> 2, first |-> @.first]]
       ELSE /\ Catch
            /\ traversed' = FALSE
            /\ UNCHANGED runs
    /\ isProcessing' = FALSE
    /\ pc' = "idle"
    /\ taskFile' = NoFile
    /\ UNCHANGED <<file, saved, input, output>>

\* App.tsx:362-376; source records which file's extraction the exported keys
\* came from
downloadJson ==
    /\ Len(extractedKeys) # 0
    /\ saved' = [written |-> TRUE,
                 fileName |-> IF file # NoFile THEN ExportName(Files[file].name)
                              ELSE <<"e","x","c","e","l","-","k","e","y","s","-","k","e","y","s",".","j","s","o","n">>,
                 keys |-> extractedKeys,
                 source |-> keysOf]
    /\ UNCHANGED <<file, extractedKeys, isProcessing, excelData, debugInfo, pc,
                   taskFile, readOk, alert, keysOf, traversed, runs, input, output>>

\* the Test button, rendered for a selected file: App.tsx:423-439
testClick ==
    /\ file # NoFile
    /\ debugInfo' = TestOutput(file)
    /\ UNCHANGED <<file, extractedKeys, isProcessing, excelData, pc, taskFile,
                   readOk, alert, saved, keysOf, traversed, runs, input, output>>

Next ==
    \/ \E selectedFile \in FileIds : handleFileSelect(selectedFile)
    \/ extractKeysStart
    \/ \E ok \in BOOLEAN : extractKeysResume(ok)
    \/ downloadJson
    \/ testClick

Spec == Init /\ [][Next]_vars

-----------------------------------------------------------------------------
(* The engine's functions applied to bounded inputs *)

FilterInit == AppInit /\ input \in FilterInputs /\ output = NotRun

applyIsEnglishKey ==
    /\ ~output.done
    /\ output' = Result(isEnglishKey(input))
    /\ UNCHANGED <<input, appVars>>

FilterNext == applyIsEnglishKey

FilterSpec == FilterInit /\ [][FilterNext]_vars

FormulaInit == AppInit /\ input \in Formulas /\ output = NotRun

\* the formula branch of one cell on an empty accumulator: the tokens and the
\* keys added, App.tsx:236-248
applyFormulaBranch ==
    /\ ~output.done
    /\ output' = Result([tokens |-> extractKeysFromFormula(input),
                         added  |-> ScanFormula(<< >>, Cell(Undefined, input, << >>))])
    /\ UNCHANGED <<input, appVars>>

FormulaNext == applyFormulaBranch

FormulaSpec == FormulaInit /\ [][FormulaNext]_vars

ExtractInit == AppInit /\ input \in Workbooks /\ output = NotRun

applyKeysArray ==
    /\ ~output.done
    /\ output' = Result(KeysArray(input))
    /\ UNCHANGED <<input, appVars>>

ExtractNext == applyKeysArray

ExtractSpec == ExtractInit /\ [][ExtractNext]_vars

-----------------------------------------------------------------------------
(* The claims *)

\* the shapes as the specification words them, independent of the code's tests
PurelyNumeric(s) == s # << >> /\ \A i \in DOMAIN s : s[i] \in Digit

CellReferenceShape(s) ==
    \E k \in 1..(Len(s) - 1) :
        /\ \A i \in 1..k : s[i] \in Letter
        /\ \A i \in (k + 1)..Len(s) : s[i] \in Digit

EqualsIgnoringCase(s, t) ==
    Len(s) = Len(t) /\ \A i \in DOMAIN s : LowerOf[s[i]] = LowerOf[t[i]]

NamesAFunction(s) == \E f \in ExcelFunctionSet : EqualsIgnoringCase(s, f)

AllArabic(s) == s # << >> /\ \A i \in DOMAIN s : s[i] \in Arabic

CellsOf(workbook) ==
    UNION {Range(Flatten(workbook.sheets[i].rows)) : i \in DOMAIN workbook.sheets}

BlankCell(cell) ==
    ~cell.present \/ (cell.v = Undefined /\ cell.f = << >> /\ cell.w = << >>)

EmptySheet(sheet) == ~sheet.ref \/ \A cell \in Range(Flatten(sheet.rows)) : BlankCell(cell)

AllSheetsEmpty(workbook) ==
    \A i \in DOMAIN workbook.sheets : EmptySheet(workbook.sheets[i])

\* C1: every element of the key sequence extractKeys produces satisfies
\* isEnglishKey, whatever its source, named-range names included.
C1_EveryKeyAccepted ==
    output.done => \A i \in DOMAIN output.value : isEnglishKey(output.value[i])

\* C2: the key sequence extractKeys produces is strictly increasing under ordinal
\* string comparison: sorted ascending, and no two elements equal.
C2_StrictlyIncreasing ==
    output.done =>
        \A i \in 1..(Len(output.value) - 1) :
            StrLess(output.value[i], output.value[i + 1])

\* user_id occurs in both sheets, as value, formatted text and header
C2_Witness ==
    /\ output.done
    /\ Len(input.sheets) = 2
    /\ input.sheets[1] = Scenario1Sheet(TRUE)
    /\ Text(<<"u","s","e","r","_","i","d">>) \in CellsOf(Workbook(<<input.sheets[2]>>, << >>))
    /\ Len(output.value) >= 3

C4_OnlyEmployeeCode ==
    (output.done /\ input = VlookupFormula)
        => output.value.added = <<<<"e","m","p","l","o","y","e","e","_","c","o","d","e">>>>

\* C4 amended: for =VLOOKUP("employee_code", Sheet2!A:A, 1, FALSE) the formula
\* branch adds exactly two keys, employee_code and FALSE; VLOOKUP and Sheet2 are
\* not added.
C4_EmployeeCodeAndFalse ==
    (output.done /\ input = VlookupFormula)
        => Range(output.value.added) = {<<"e","m","p","l","o","y","e","e","_","c","o","d","e">>, <<"F","A","L","S","E">>}

C4_Witness ==
    /\ output.done
    /\ input = VlookupFormula
    /\ <<"e","m","p","l","o","y","e","e","_","c","o","d","e">> \in Range(output.value.added)

\* C5: whenever downloadJson writes an export, the keys of the payload were
\* extracted from the file whose name, extension stripped, forms the output file
\* name <base>-keys.json.
C5_ExportNamedAfterSource ==
    saved.written =>
        /\ saved.source # NoFile
        /\ saved.fileName = ExportName(Files[saved.source].name)

\* C6: when reading or parsing the file fails, the call ends as a single
\* failure: the traversal is not run, the zero-keys outcome is not reported, and
\* extractedKeys, excelData and debugInfo keep their values.
C6_FailureChangesNothing ==
    [][(pc = "awaiting" /\ pc' = "idle" /\ ~(readOk' /\ Files[taskFile].parses))
        => /\ UNCHANGED <<extractedKeys, excelData, debugInfo>>
           /\ traversed' = FALSE
           /\ alert' = "error"]_vars

\* a failed read after an extraction that had published keys
C6_Witness ==
    /\ pc = "idle"
    /\ ~readOk
    /\ ~traversed
    /\ alert = "error"
    /\ extractedKeys # << >>

\* C7: a cell value consisting solely of Arabic-script characters never appears
\* in the result of extractKeys.
C7_NoArabicCellValue ==
    output.done =>
        \A cell \in CellsOf(input) :
            (cell.present /\ cell.v.t = "s" /\ AllArabic(cell.v.s))
                => cell.v.s \notin Range(output.value)

\* C8: isEnglishKey is true for user_id, itemName, MAX_COUNT, key-1 and
\* config.value, and false for an Arabic-script word, 12345, a and IF.
C8_SampleVerdicts ==
    output.done =>
        /\ input \in {<<"u","s","e","r","_","i","d">>, <<"i","t","e","m","N","a","m","e">>, <<"M","A","X","_","C","O","U","N","T">>, <<"k","e","y","-","1">>,
                      <<"c","o","n","f","i","g",".","v","a","l","u","e">>} => output.value = TRUE
        /\ input \in {ArabicWord, <<"1","2","3","4","5">>, <<"a">>, <<"I","F">>} => output.value = FALSE

C8_Witness == output.done /\ input = <<"k","e","y","-","1">> /\ output.value = TRUE

\* C9 as stated: a workbook whose sheets are empty (no used range, or a used
\* range of blank cells only) yields an empty key sequence.
C9_EmptySheetsNoKeys ==
    (output.done /\ AllSheetsEmpty(input)) => output.value = << >>

\* C9 amended: a workbook whose sheets are all empty and which defines no
\* named range yields an empty key sequence.
C9_EmptySheetsNoNamesNoKeys ==
    (output.done /\ AllSheetsEmpty(input) /\ input.names = << >>)
        => output.value = << >>

C9_Witness ==
    /\ output.done
    /\ Len(input.sheets) = 2
    /\ input.sheets[1] = NoRefSheet
    /\ input.sheets[2] \in BlankSheets
    /\ input.names = << >>
    /\ output.value = << >>

\* C10: the one-sheet workbook with header row user_id, Name, B and data row
\* u1, Ali, 42 yields exactly the key sequence Name, user_id, in that order.
C10_Scenario1 ==
    (output.done /\ input \in {Workbook(<<s>>, << >>) : s \in Scenario1Sheets})
        => output.value = <<<<"N","a","m","e">>, <<"u","s","e","r","_","i","d">>>>

C10_Witness ==
    /\ output.done
    /\ input = Workbook(<<Scenario1Sheet(TRUE)>>, << >>)
    /\ Len(output.value) = 2

PassesRejections(s) ==
    LET t == trim(s)
    IN  /\ t # << >>
        /\ \A i \in DOMAIN t : t[i] \in Letter \cup Digit \cup {"_", "-", "."}
        /\ Len(t) >= 2
        /\ \E i \in DOMAIN t : t[i] \in Letter
        /\ ~PurelyNumeric(t)
        /\ ~NamesAFunction(t)
        /\ ~CellReferenceShape(t)

\* starts with a lower-case ASCII letter and holds an upper-case one later
CamelCaseShape(s) ==
    /\ s # << >>
    /\ s[1] \in Lower
    /\ \E i \in 2..Len(s) : s[i] \in Upper

\* C12: isEnglishKey accepts every candidate that passes all seven rejection
\* rules and has the camelCase shape: it starts with a lower-case ASCII letter
\* and contains an upper-case ASCII letter at any later position.
C12_CamelCaseAccepted ==
    (output.done /\ PassesRejections(input) /\ CamelCaseShape(trim(input)))
        => output.value = TRUE

\* C13: isEnglishKey accepts candidates of the word-followed-by-digits shape
\* (ASCII letters then ASCII digits, the whole string), such as item2 and key1.
C13_WordDigitsAccepted ==
    (output.done
     /\ \E k \in 1..(Len(input) - 1) :
            /\ \A i \in 1..k : input[i] \in Letter
            /\ \A i \in (k + 1)..Len(input) : input[i] \in Digit)
        => output.value = TRUE

\* C14: every token extractKeysFromFormula returns from its pattern captures is
\* longer than 1, is not numeric, does not equal a spreadsheet function name
\* ignoring case, and is not cell-reference shaped; the only other tokens it
\* returns are Arabic/Persian-script runs longer than 2 characters.
C14_TokensPassKeepFilter ==
    output.done =>
        \A i \in DOMAIN output.value.tokens :
            LET token == output.value.tokens[i]
            IN  \/ /\ Len(token) > 1
                   /\ ~PurelyNumeric(token)
                   /\ ~isNumeric(token)
                   /\ ~NamesAFunction(token)
                   /\ ~CellReferenceShape(token)
                \/ AllArabic(token) /\ Len(token) > 2

\* a formula with a camelCase word, a quoted Arabic word and a dotted name
C14_Witness ==
    /\ output.done
    /\ input = <<"=","i","t","e","m","N","a","m","e"," ","&"," ">> \o <<"\"">> \o ArabicWord \o <<"\"">> \o <<" ","&"," ","c","o","n","f","i","g",".","v","a","l","u","e">>
    /\ Range(output.value.tokens) = {<<"i","t","e","m","N","a","m","e">>, ArabicWord, <<"c","o","n","f","i","g",".","v","a","l","u","e">>}

\* C15: every key extractKeys adds from a cell (formula token, cell value or
\* formatted text) is stored in trimmed form and consists only of ASCII letters,
\* ASCII digits, '_', '-' and '.', so the result never holds two cell-derived
\* keys that differ only in surrounding white space.  Stated on the workbooks
\* without named ranges, whose keys all come from cells.
C15_CellKeysTrimmed ==
    (output.done /\ input.names = << >>) =>
        /\ \A i \in DOMAIN output.value :
               /\ trim(output.value[i]) = output.value[i]
               /\ \A j \in DOMAIN output.value[i] :
                      output.value[i][j] \in Letter \cup Digit \cup {"_", "-", "."}
        /\ \A i, j \in DOMAIN output.value :
               trim(output.value[i]) = trim(output.value[j]) => i = j

\* the traversal with the header pass of App.tsx:297-313 removed
RECURSIVE ScanSheetsWithoutHeaders(_, _, _)
ScanSheetsWithoutHeaders(allKeys, sheets, names) ==
    IF sheets = << >> THEN allKeys
    ELSE ScanSheetsWithoutHeaders(
             AddNames(ScanCells(allKeys, RangeCells(Head(sheets))), names),
             Tail(sheets), names)

KeysArrayWithoutHeaders(workbook) ==
    sort(ScanSheetsWithoutHeaders(<< >>, workbook.sheets, workbook.names))

\* C16: for every workbook, the header-row pass adds no key that the general
\* cell scan of the same sheet has not already added: the key sequence produced
\* with the header pass equals the one produced with the header pass removed.
C16_HeaderPassAddsNothing ==
    output.done => output.value = KeysArrayWithoutHeaders(input)

\* two sheets with accepted header cells in their first rows, and a named range
C16_Witness ==
    /\ output.done
    /\ Len(input.sheets) = 2
    /\ input.sheets[1] = Scenario1Sheet(FALSE)
    /\ input.sheets[2] \notin EmptySheets \cup Scenario1Sheets
    /\ input.names # << >>
    /\ <<"M","A","X","_","C","O","U","N","T">> \in Range(output.value)
    /\ <<"u","s","e","r","_","i","d">> \in Range(output.value)

====
